---- MODULE Spec2Model ----
(***************************************************************************)
(* A model of pwnlib/adb/protocol.py: the ADB host-protocol client.        *)
(*                                                                         *)
(* Byte strings are sequences of character codes (naturals).  The server   *)
(* is the environment: every blocking read of n bytes either yields n      *)
(* bytes drawn from a small sample set or hits end of stream (EOFError),   *)
(* and every write may hit end of stream as well.  One public operation of *)
(* Host runs at a time (the code is single threaded and synchronous); pc   *)
(* is the position inside the running operation, "idle" between two        *)
(* operations.                                                             *)
(***************************************************************************)
EXTENDS Integers, Sequences, FiniteSets, TLC

(***************************************************************************)
(* Bounds of the model.                                                    *)
(***************************************************************************)
\* Connections a Host may open in one run.
MaxConns == 2
\* DENT records the server sends in one listing.
MaxDents == 3
\* Largest payload handed to Message in the codec specification.
MaxPayloadLen == 300
\* Largest value handed to pack in the codec specification.
MaxVal == 65536

VARIABLES
    pc,        \* position in the running operation, "idle" when none runs
    op,        \* the public operation running, or the last one that ran
    _c,        \* Host._c: None or the Connection held
    conns,     \* every Connection opened so far: "open" or "closed"
    detached,  \* the Connections a successful execute returned to its caller
    io,        \* the writes and reads of the running (or last) operation
    files,     \* list(): the local list `files`
    dents,     \* list(): the names of the DENT records the server has sent
    rv,        \* the value the last operation returned
    outcome,   \* "none", "running", "returned" or "raised"
    exc,       \* the exception a raised operation left with
    args,      \* the arguments of the operation: path, mode, long
    served,    \* version, devices: the bytes the server sent after the status
    closes,    \* how often close() was called on each Connection
    targets,   \* the host and port each Connection was opened to
    context,   \* the ambient context.adb_host and context.adb_port
    host,      \* Host.host and Host.port
    mode,      \* codec: what is encoded, "message" or "pack"; "off" in a session
    stage,     \* codec: "input", then "encoded", then "decoded"
    string,    \* codec: Message.string
    val,       \* codec: the argument of pack
    frame,     \* codec: str(Message(string)), or pack(val)
    decoded    \* codec: unpack of the frame's first four characters

vars == <<pc, op, _c, conns, detached, io, files, dents, rv, outcome, exc,
          args, served, closes, targets, context, host,
          mode, stage, string, val, frame, decoded>>

sessionVars == <<pc, op, _c, conns, detached, io, files, dents, rv, outcome, exc,
                 args, served, closes, targets, context, host>>
ambient == <<context, host>>
codecVars == <<mode, stage, string, val, frame, decoded>>

(***************************************************************************)
(* Frame codec: pack, unpack, Message (protocol.py lines 14-29).           *)
(***************************************************************************)
\* The character of one lowercase hexadecimal digit: '0'..'9' are 48..57,
\* 'a'..'f' are 97..102.
HexDigit(d) == IF d < 10 THEN 48 + d ELSE 87 + d

RECURSIVE HexStr(_)
\* '%x' % v for v >= 0: the digits of v in base 16, most significant first.
HexStr(v) ==
    IF v < 16 THEN <<HexDigit(v)>>
    ELSE HexStr(v \div 16) \o <<HexDigit(v % 16)>>

RECURSIVE ZeroPad(_, _)
\* Left padding with '0' up to the width w; longer strings are left alone.
ZeroPad(s, w) == IF Len(s) >= w THEN s ELSE ZeroPad(<<48>> \o s, w)

\* pack(val): '%04x' % val
pack(v) == ZeroPad(HexStr(v), 4)

\* The value of one hexadecimal digit character, -1 when it is none.
DigitVal(ch) ==
    IF ch >= 48 /\ ch <= 57 THEN ch - 48
    ELSE IF ch >= 97 /\ ch <= 102 THEN ch - 87
    ELSE IF ch >= 65 /\ ch <= 70 THEN ch - 55
    ELSE -1

RECURSIVE unpack(_)
\* unpack(val): int(val, 16) over a string of hexadecimal digits; -1 stands
\* for the ValueError int() raises on anything else.
unpack(s) ==
    IF Len(s) = 0 THEN -1
    ELSE LET d == DigitVal(s[Len(s)])
         IN  IF d < 0 THEN -1
             ELSE IF Len(s) = 1 THEN d
             ELSE LET hi == unpack(SubSeq(s, 1, Len(s) - 1))
                  IN  IF hi < 0 THEN -1 ELSE 16 * hi + d

\* A Message whose length field counts its own four characters as well.
Message__str__counting_header(s) == pack(Len(s) + 4) \o s

\* Message.__str__: ('%04x' % len(self.string)) + self.string
Message__str__(s) == pack(Len(s)) \o s

\* The payload of n bytes the codec specification encodes.
Payload(n) == [i \in 1..n |-> IF i % 3 = 0 THEN 102 ELSE IF i % 3 = 1 THEN 48 ELSE 97]

(***************************************************************************)
(* Values of the session.                                                  *)
(***************************************************************************)
None == 0
OKAY == "OKAY"
FAIL == "FAIL"

\* The 4-byte tokens the server may answer with: the two status tokens, the
\* directory-entry tag and one token that is none of these.
Tokens == {"OKAY", "FAIL", "DENT", "DONE"}

\* End of stream while writing, and while reading.
EOF_SEND == "EOF:send"
EOF_RECV == "EOF:recvn"
Replies == Tokens \cup {EOF_SEND, EOF_RECV}

\* The operations wrapped by autoclose alone, by with_transport and autoclose,
\* and by neither.
FireOps == {"remount", "root", "unroot", "disable_verity", "enable_verity",
            "reconnect", "reboot", "reboot_bootloader"}
SyncOps == {"list", "write", "read"}
TransportOps == {"execute"} \cup FireOps \cup SyncOps
AutocloseOnlyOps == {"kill", "devices"}
BareOps == {"version", "transport"}
Ops == BareOps \cup AutocloseOnlyOps \cup TransportOps

\* The command each fire-and-read operation sends.
Cmd(o) ==
    CASE o = "remount" -> "remount:"
      [] o = "root" -> "root:"
      [] o = "unroot" -> "unroot:"
      [] o = "disable_verity" -> "disable-verity:"
      [] o = "enable_verity" -> "enable-verity:"
      [] o = "reconnect" -> "reconnect:"
      [] o = "reboot" -> "reboot:"
      [] o = "reboot_bootloader" -> "reboot:bootloader"

\* The requests a with_transport body writes first.
BodyRequests == {"exec:", "sync:"} \cup {Cmd(o) : o \in FireOps}

\* 4-byte length fields the server may send: 0000, 0001, 0004 and one that
\* is not hexadecimal.
Hex4Samples == {<<48, 48, 48, 48>>, <<48, 48, 48, 49>>, <<48, 48, 48, 52>>,
                <<122, 122, 122, 122>>}

\* Entry names the server may send: "", ".", "..", "a", "b", "ab".
Names == {<<>>, <<46>>, <<46, 46>>, <<97>>, <<98>>, <<97, 98>>}

\* What recvall may return: nothing, or some bytes.
Drained == {<<>>, <<79, 75>>}

NoRv == [kind |-> "None", conn |-> 0, names |-> <<>>, nums |-> <<>>, data |-> <<>>]
ConnRv(id) == [NoRv EXCEPT !.kind = "Connection", !.conn = id]
ListRv(l) == [NoRv EXCEPT !.kind = "list", !.names = l]
TupleRv(t) == [NoRv EXCEPT !.kind = "tuple", !.nums = t]
BytesRv(b) == [NoRv EXCEPT !.kind = "bytes", !.data = b]

\* One write or read of the running operation: a framed command or a 4-byte
\* token (tok), a 32-bit length field (len), raw bytes (data).
W(id, what, tok) ==
    [dir |-> "w", conn |-> id, what |-> what, tok |-> tok, len |-> 0, data |-> <<>>]
R(id, what, tok) ==
    [dir |-> "r", conn |-> id, what |-> what, tok |-> tok, len |-> 0, data |-> <<>>]
\* A raw write of a tag, a length field and bytes; a read that returned bytes.
WD(id, what, tok, len, data) == [W(id, what, tok) EXCEPT !.len = len, !.data = data]
RD(id, what, data) == [R(id, what, "") EXCEPT !.data = data]

\* The arguments when the operation takes none.
NoArgs == [path |-> <<>>, mode |-> 0, long |-> FALSE]

\* The paths given to list, write and read: "/" and "/ab".
Paths == {<<47>>, <<47, 97, 98>>}

\* The modes given to write: the default 0o755, and 0.
Modes == {493, 0}

\* The servers the ambient configuration may name, and the one it names
\* when the Host is constructed.
Endpoints == {"localhost:5037", "10.0.0.2:5037"}
AtConstruction == "localhost:5037"

(***************************************************************************)
(* Host.__init__ (lines 39-42): no Connection is opened.                   *)
(***************************************************************************)
SessionInit ==
    /\ pc = "idle"
    /\ op = "none"
    /\ _c = None
    /\ conns = <<>>
    /\ detached = {}
    /\ io = <<>>
    /\ files = <<>>
    /\ dents = <<>>
    /\ rv = NoRv
    /\ outcome = "none"
    /\ exc = "none"
    /\ args = NoArgs
    /\ served = <<>>
    /\ closes = <<>>
    /\ targets = <<>>
    /\ context = AtConstruction
    /\ host = context

Init ==
    /\ SessionInit
    /\ mode = "off"
    /\ stage = "input"
    /\ string = <<>>
    /\ val = 0
    /\ frame = <<>>
    /\ decoded = 0

(***************************************************************************)
(* Leaving an operation, and moving inside one.                            *)
(***************************************************************************)
\* An exception leaves the operation at once: no wrapper catches it.
Raise(e) == pc' = "idle" /\ outcome' = "raised" /\ exc' = e /\ rv' = NoRv

Return(v) == pc' = "idle" /\ outcome' = "returned" /\ exc' = "none" /\ rv' = v

Goto(l) == pc' = l /\ UNCHANGED <<rv, outcome, exc>>

\* The body returns v to the wrapper whose code is at l.
BodyReturn(l, v) == pc' = l /\ rv' = v /\ UNCHANGED <<outcome, exc>>

(***************************************************************************)
(* Host.c (lines 44-48): the Connection is opened on first use.            *)
(***************************************************************************)
c == IF _c = None THEN Len(conns) + 1 ELSE _c

\* A Connection opened on every use, without the test of self._c.
cOpened_always == Append(conns, "open")

cOpened == IF _c = None THEN Append(conns, "open") ELSE conns

\* Connection(self.host, self.port) with the ambient values of the moment.
connectTarget_ambient == context

\* Connection(self.host, self.port) (line 47)
connectTarget == host

\* The new Connection's target and its count of close() calls.
cConnected ==
    /\ targets' = IF _c = None THEN Append(targets, connectTarget) ELSE targets
    /\ closes' = IF _c = None THEN Append(closes, 0) ELSE closes

\* Host.send (lines 71-72) with Connection.adb_send (lines 32-34): the
\* framed message is written, then 4 bytes are read.
sendWire(msg, reply) ==
    /\ conns' = cOpened
    /\ cConnected
    /\ io' = io \o (IF reply = EOF_SEND THEN <<>> ELSE <<W(c, "adb_send", msg)>>)
                \o (IF reply \in Tokens THEN <<R(c, "status", reply)>> ELSE <<>>)

send(msg, reply) == _c' = c /\ sendWire(msg, reply)

\* self.c.send / self.c.flat: a raw write, which end of stream may fail.
cWrite(what, tok, len, data, ok) ==
    /\ _c' = c
    /\ conns' = cOpened
    /\ cConnected
    /\ io' = io \o (IF ok THEN <<WD(c, what, tok, len, data)>> ELSE <<>>)

\* n reads through self.c, each logged as `what`.
cRead(events) ==
    /\ _c' = c
    /\ conns' = cOpened
    /\ cConnected
    /\ io' = io \o events

\* self._c.close() without self._c = None.
closeHeld_keeping_c ==
    /\ conns' = IF _c = None THEN conns ELSE [conns EXCEPT ![_c] = "closed"]
    /\ closes' = IF _c = None THEN closes ELSE [closes EXCEPT ![_c] = @ + 1]
    /\ _c' = _c

\* if self._c: self._c.close(); self._c = None
closeHeld ==
    /\ conns' = IF _c = None THEN conns ELSE [conns EXCEPT ![_c] = "closed"]
    /\ closes' = IF _c = None THEN closes ELSE [closes EXCEPT ![_c] = @ + 1]
    /\ _c' = None

(***************************************************************************)
(* A public operation is called.                                           *)
(***************************************************************************)
Entry(o) ==
    IF o \in TransportOps THEN "with_transport_transport"
    ELSE o \o "_send"

\* The arguments each operation may be called with.
ArgsOf(o) ==
    IF o = "devices" THEN {[NoArgs EXCEPT !.long = l] : l \in BOOLEAN}
    ELSE IF o = "write"
         THEN {[NoArgs EXCEPT !.path = p, !.mode = m] : p \in Paths, m \in Modes}
    ELSE IF o = "read" THEN {[NoArgs EXCEPT !.path = p] : p \in Paths}
    ELSE IF o = "list" THEN {[NoArgs EXCEPT !.path = <<47>>]}
    ELSE {NoArgs}

Call(o) ==
    /\ pc = "idle"
    /\ outcome = "none"
    /\ _c # None \/ Len(conns) < MaxConns
    /\ op' = o
    /\ pc' = Entry(o)
    /\ io' = <<>>
    /\ files' = <<>>
    /\ dents' = <<>>
    /\ rv' = NoRv
    /\ outcome' = "running"
    /\ exc' = "none"
    /\ args' \in ArgsOf(o)
    /\ served' = <<>>
    /\ UNCHANGED <<_c, conns, detached, closes, targets, ambient, codecVars>>

\* The operation has left: its caller has the result or the exception, and
\* nothing of the call remains but what it did to the Host and its
\* Connections.
caller_resumes ==
    /\ pc = "idle"
    /\ outcome \in {"returned", "raised"}
    /\ op' = "none"
    /\ io' = <<>>
    /\ files' = <<>>
    /\ dents' = <<>>
    /\ rv' = NoRv
    /\ outcome' = "none"
    /\ exc' = "none"
    /\ args' = NoArgs
    /\ served' = <<>>
    /\ UNCHANGED <<pc, _c, conns, detached, closes, targets, ambient, codecVars>>

(***************************************************************************)
(* The wrappers (lines 50-69).                                             *)
(***************************************************************************)
\* autoclose, after fn returned (lines 54-57).
autoclose ==
    /\ pc = "autoclose_close"
    /\ closeHeld
    /\ Return(rv)
    /\ UNCHANGED <<op, detached, io, files, dents, args, served, targets, ambient, codecVars>>

\* with_transport, after fn returned (lines 65-68).
with_transport_close ==
    /\ pc = "with_transport_close"
    /\ closeHeld
    /\ Goto("autoclose_close")
    /\ UNCHANGED <<op, detached, io, files, dents, args, served, targets, ambient, codecVars>>

\* transport (lines 104-107) with the server's reply; `then` is what follows
\* a call that returns.  log is not bound in the module: reaching log.error
\* raises NameError.
transport_logless(reply, then) ==
    /\ send("host:transport:", reply)
    /\ IF reply \in {EOF_SEND, EOF_RECV} THEN Raise("EOFError")
       ELSE then

transport(reply, then) ==
    /\ send("host:transport:", reply)
    /\ IF reply \in {EOF_SEND, EOF_RECV} THEN Raise("EOFError")
       ELSE IF reply = FAIL THEN Raise("NameError")
       ELSE then

\* The first body label of each with_transport operation.
Body(o) ==
    IF o = "execute" THEN "execute_transport"
    ELSE IF o \in FireOps THEN "fire_send"
    ELSE o \o "_sync"

\* with_transport, before fn (line 63).
with_transport_transport ==
    /\ pc = "with_transport_transport"
    /\ \E reply \in Replies : transport(reply, Goto(Body(op)))
    /\ UNCHANGED <<op, detached, files, dents, args, served, ambient, codecVars>>

\* transport() called as a public operation.
transport_send ==
    /\ pc = "transport_send"
    /\ \E reply \in Replies : transport(reply, Return(NoRv))
    /\ UNCHANGED <<op, detached, files, dents, args, served, ambient, codecVars>>

(***************************************************************************)
(* kill, version, devices (lines 81-102).                                  *)
(***************************************************************************)
\* A kill without the try: EOFError leaves the operation.
kill_try_uncaught(reply) ==
    IF reply \in {EOF_SEND, EOF_RECV} THEN Raise("EOFError")
    ELSE BodyReturn("autoclose_close", NoRv)

\* try: ... except EOFError: pass (lines 83-86): whatever send did, kill
\* returns None.
kill_try(reply) == BodyReturn("autoclose_close", NoRv)

\* kill: EOFError from send is swallowed.
kill_send ==
    /\ pc = "kill_send"
    /\ \E reply \in Replies : send("host:kill", reply) /\ kill_try(reply)
    /\ UNCHANGED <<op, detached, files, dents, args, served, ambient, codecVars>>

version_send ==
    /\ pc = "version_send"
    /\ \E reply \in Replies :
        /\ send("host:version", reply)
        /\ IF reply \in {EOF_SEND, EOF_RECV} THEN Raise("EOFError")
           ELSE IF reply = OKAY THEN Goto("version_unpack")
           ELSE Raise("NameError")
    /\ UNCHANGED <<op, detached, files, dents, args, served, ambient, codecVars>>

\* A tuple with the second field first.
version_tuple_swapped(h1, h2) == <<unpack(h2), unpack(h1)>>

\* (self.c.unpack(), self.c.unpack()): h1 is read first, h2 second.
version_tuple(h1, h2) == <<unpack(h1), unpack(h2)>>

\* return (self.c.unpack(), self.c.unpack())
version_unpack ==
    /\ pc = "version_unpack"
    /\ \/ cRead(<<>>) /\ served' = <<>> /\ Raise("EOFError")
       \/ \E h1 \in Hex4Samples :
            \/ /\ cRead(<<RD(c, "unpack", h1)>>)
               /\ served' = h1
               /\ IF unpack(h1) < 0 THEN Raise("ValueError") ELSE Raise("EOFError")
            \/ /\ unpack(h1) >= 0
               /\ \E h2 \in Hex4Samples :
                    /\ cRead(<<RD(c, "unpack", h1), RD(c, "unpack", h2)>>)
                    /\ served' = h1 \o h2
                    /\ IF unpack(h2) < 0 THEN Raise("ValueError")
                       ELSE Return(TupleRv(version_tuple(h1, h2)))
    /\ UNCHANGED <<op, detached, files, dents, args, ambient, codecVars>>

devices_send ==
    /\ pc = "devices_send"
    /\ \E reply \in Replies :
        /\ send(IF args.long THEN "host:devices-l" ELSE "host:devices", reply)
        /\ IF reply \in {EOF_SEND, EOF_RECV} THEN Raise("EOFError")
           ELSE IF reply = OKAY THEN Goto("devices_recvl")
           ELSE Raise("NameError")
    /\ UNCHANGED <<op, detached, files, dents, args, served, ambient, codecVars>>

\* What the server may send after the length field: "", "d", "dev\n" and
\* "dev\nX".
Blocks == {<<>>, <<100>>, <<100, 101, 118, 10>>, <<100, 101, 118, 10, 88>>}

\* A read that takes everything the server has sent.
recvn_everything(block, n) == block

\* self.c.recvn(length): the first n of the bytes the server sends.
recvn(block, n) == SubSeq(block, 1, n)

\* recvl (lines 77-79): a 4-digit length, then that many bytes; the stream
\* may end before the length, or before that many bytes have come.
devices_recvl ==
    /\ pc = "devices_recvl"
    /\ \/ cRead(<<>>) /\ served' = <<>> /\ Raise("EOFError")
       \/ \E h \in Hex4Samples :
            /\ unpack(h) < 0
            /\ cRead(<<RD(c, "unpack", h)>>)
            /\ served' = h
            /\ Raise("ValueError")
       \/ \E h \in Hex4Samples, block \in Blocks :
            /\ unpack(h) >= 0
            /\ served' = h \o block
            /\ IF Len(block) < unpack(h)
               THEN cRead(<<RD(c, "unpack", h)>>) /\ Raise("EOFError")
               ELSE /\ cRead(<<RD(c, "unpack", h),
                               RD(c, "recvn", recvn(block, unpack(h)))>>)
                    /\ BodyReturn("autoclose_close",
                                  BytesRv(recvn(block, unpack(h))))
    /\ UNCHANGED <<op, detached, files, dents, args, ambient, codecVars>>

(***************************************************************************)
(* execute (lines 109-120).                                                *)
(***************************************************************************)
\* self.transport(context.device), inside the body (line 112).
execute_transport ==
    /\ pc = "execute_transport"
    /\ \E reply \in Replies : transport(reply, Goto("execute_send"))
    /\ UNCHANGED <<op, detached, files, dents, args, served, ambient, codecVars>>

\* An execute that returns the Connection without clearing self._c.
detach_keeping_c(id) == _c' = id /\ detached' = detached \cup {id}

\* rv = self._c; self._c = None (lines 118-119)
detach(id) == _c' = None /\ detached' = detached \cup {id}

\* cmd = 'exec:...'; if OKAY == self.send(cmd): ... (lines 116-120)
execute_send ==
    /\ pc = "execute_send"
    /\ \E reply \in Replies :
        /\ sendWire("exec:", reply)
        /\ IF reply = OKAY
           THEN detach(c) /\ BodyReturn("with_transport_close", ConnRv(c))
           ELSE /\ _c' = c
                /\ detached' = detached
                /\ IF reply \in {EOF_SEND, EOF_RECV} THEN Raise("EOFError")
                   ELSE BodyReturn("with_transport_close", NoRv)
    /\ UNCHANGED <<op, files, dents, args, served, ambient, codecVars>>

(***************************************************************************)
(* remount, root, unroot, disable_verity, enable_verity, reconnect,        *)
(* reboot, reboot_bootloader (lines 122-168): send the command, whatever   *)
(* the status, then drain the channel.                                     *)
(***************************************************************************)
fire_send ==
    /\ pc = "fire_send"
    /\ \E reply \in Replies :
        /\ send(Cmd(op), reply)
        /\ IF reply \in {EOF_SEND, EOF_RECV} THEN Raise("EOFError")
           ELSE Goto("fire_recvall")
    /\ UNCHANGED <<op, detached, files, dents, args, served, ambient, codecVars>>

\* return self.c.recvall(): everything up to the end of the stream.
recvall ==
    \E d \in Drained :
        /\ cRead(<<RD(c, "recvall", d)>>)
        /\ BodyReturn("with_transport_close", BytesRv(d))

fire_recvall ==
    /\ pc = "fire_recvall"
    /\ recvall
    /\ UNCHANGED <<op, detached, files, dents, args, served, ambient, codecVars>>

(***************************************************************************)
(* list (lines 170-194).                                                   *)
(***************************************************************************)
RECURSIVE LexLess(_, _)
\* a < b for two byte strings, as Python compares str.
LexLess(a, b) ==
    IF Len(b) = 0 THEN FALSE
    ELSE IF Len(a) = 0 THEN TRUE
    ELSE IF a[1] # b[1] THEN a[1] < b[1]
    ELSE LexLess(Tail(a), Tail(b))

RECURSIVE InsertSorted(_, _)
\* x put into the sorted list s, after the elements that are not greater.
InsertSorted(x, s) ==
    IF Len(s) = 0 THEN <<x>>
    ELSE IF LexLess(x, s[1]) THEN <<x>> \o s
    ELSE <<s[1]>> \o InsertSorted(x, Tail(s))

\* A listing returned in the order the server sent it.
unsorted(s) == s

RECURSIVE sorted(_)
\* sorted(files)
sorted(s) ==
    IF Len(s) = 0 THEN <<>>
    ELSE InsertSorted(s[Len(s)], sorted(SubSeq(s, 1, Len(s) - 1)))

\* if name in ('', '.', '..'): continue
Ignored(name) == name \in {<<>>, <<46>>, <<46, 46>>}

\* A loop that goes on until the tag is DONE.
IsDent_until_done(tag) == tag # "DONE"

\* if response != 'DENT': break
IsDent(tag) == tag = "DENT"

\* if FAIL == self.send('sync:'): return (lines 173-174)
list_sync ==
    /\ pc = "list_sync"
    /\ \E reply \in Replies :
        /\ send("sync:", reply)
        /\ IF reply \in {EOF_SEND, EOF_RECV} THEN Raise("EOFError")
           ELSE IF reply = FAIL THEN BodyReturn("with_transport_close", NoRv)
           ELSE Goto("list_flat")
    /\ UNCHANGED <<op, detached, files, dents, args, served, ambient, codecVars>>

\* self.c.flat('LIST', len(path), path, word_size=32) (line 176)
list_flat ==
    /\ pc = "list_flat"
    /\ \E ok \in BOOLEAN :
        /\ cWrite("flat", "LIST", Len(args.path), args.path, ok)
        /\ IF ok THEN Goto("list_recvn") ELSE Raise("EOFError")
    /\ UNCHANGED <<op, detached, files, dents, args, served, ambient, codecVars>>

\* response = self.c.recvn(4); the loop's exit and return sorted(files)
\* (lines 178-181, 194).  The server sends at most MaxDents records.
list_recvn ==
    /\ pc = "list_recvn"
    /\ \/ cRead(<<>>) /\ Raise("EOFError")
       \/ \E tag \in Tokens :
            /\ cRead(<<R(c, "tag", tag)>>)
            /\ IF IsDent(tag)
               THEN Len(dents) < MaxDents /\ Goto("list_dent")
               ELSE BodyReturn("with_transport_close", ListRv(sorted(files)))
    /\ UNCHANGED <<op, detached, files, dents, args, served, ambient, codecVars>>

\* mode, size, time, the name's length and the name (lines 183-192); end of
\* stream may cut any of the five reads short.
list_dent ==
    /\ pc = "list_dent"
    /\ \/ \E k \in 0..4 :
            /\ cRead([i \in 1..k |-> R(c, "u32", "")])
            /\ Raise("EOFError")
            /\ UNCHANGED <<files, dents>>
       \/ \E name \in Names :
            /\ cRead([i \in 1..4 |-> R(c, "u32", "")] \o <<RD(c, "name", name)>>)
            /\ dents' = Append(dents, name)
            /\ files' = IF Ignored(name) THEN files ELSE Append(files, name)
            /\ Goto("list_recvn")
    /\ UNCHANGED <<op, detached, args, served, ambient, codecVars>>

(***************************************************************************)
(* write and read (lines 196-210).                                         *)
(***************************************************************************)
RECURSIVE str(_)
\* str(mode): the decimal digits of a non-negative integer.
str(n) == IF n < 10 THEN <<48 + n>> ELSE str(n \div 10) \o <<48 + (n % 10)>>

\* if OKAY == self.send('sync:'): (lines 199, 207)
sync_okay(then) ==
    \E reply \in Replies :
        /\ send("sync:", reply)
        /\ IF reply \in {EOF_SEND, EOF_RECV} THEN Raise("EOFError")
           ELSE IF reply = OKAY THEN Goto(then)
           ELSE BodyReturn("with_transport_close", NoRv)

\* One raw write, then on to the next line.
rawWrite(what, tok, len, data, then) ==
    \E ok \in BOOLEAN :
        /\ cWrite(what, tok, len, data, ok)
        /\ IF ok THEN Goto(then) ELSE Raise("EOFError")

write_sync ==
    /\ pc = "write_sync"
    /\ sync_okay("write_flat")
    /\ UNCHANGED <<op, detached, files, dents, args, served, ambient, codecVars>>

\* self.c.flat('SEND', len(path), path + ',' + str(mode)) (line 200)
write_flat ==
    /\ pc = "write_flat"
    /\ rawWrite("flat", "SEND", Len(args.path),
                args.path \o <<44>> \o str(args.mode), "write_send")
    /\ UNCHANGED <<op, detached, files, dents, args, served, ambient, codecVars>>

\* self.c.send(path) (line 201)
write_send ==
    /\ pc = "write_send"
    /\ rawWrite("send", "path", 0, args.path, "write_recvall")
    /\ UNCHANGED <<op, detached, files, dents, args, served, ambient, codecVars>>

write_recvall ==
    /\ pc = "write_recvall"
    /\ recvall
    /\ UNCHANGED <<op, detached, files, dents, args, served, ambient, codecVars>>

read_sync ==
    /\ pc = "read_sync"
    /\ sync_okay("read_send_tag")
    /\ UNCHANGED <<op, detached, files, dents, args, served, ambient, codecVars>>

\* self.c.send('RECV' + p32(len(path))) (line 208)
read_send_tag ==
    /\ pc = "read_send_tag"
    /\ rawWrite("send", "RECV", Len(args.path), <<>>, "read_send_path")
    /\ UNCHANGED <<op, detached, files, dents, args, served, ambient, codecVars>>

\* self.c.send(path) (line 209)
read_send_path ==
    /\ pc = "read_send_path"
    /\ rawWrite("send", "path", 0, args.path, "read_recvall")
    /\ UNCHANGED <<op, detached, files, dents, args, served, ambient, codecVars>>

read_recvall ==
    /\ pc = "read_recvall"
    /\ recvall
    /\ UNCHANGED <<op, detached, files, dents, args, served, ambient, codecVars>>

(***************************************************************************)
(* The session: any public operation, one at a time, against any server.   *)
(***************************************************************************)
\* Between two operations the process may change the ambient configuration.
set_context ==
    /\ pc = "idle"
    /\ outcome = "none"
    /\ context' \in Endpoints \ {context}
    /\ UNCHANGED <<pc, op, _c, conns, detached, io, files, dents, rv, outcome, exc,
                   args, served, closes, targets, host, codecVars>>

Next ==
    \/ \E o \in Ops : Call(o)
    \/ caller_resumes
    \/ set_context
    \/ autoclose
    \/ with_transport_transport
    \/ with_transport_close
    \/ transport_send
    \/ kill_send
    \/ version_send
    \/ version_unpack
    \/ devices_send
    \/ devices_recvl
    \/ execute_transport
    \/ execute_send
    \/ fire_send
    \/ fire_recvall
    \/ list_sync
    \/ list_flat
    \/ list_recvn
    \/ list_dent
    \/ write_sync
    \/ write_flat
    \/ write_send
    \/ write_recvall
    \/ read_sync
    \/ read_send_tag
    \/ read_send_path
    \/ read_recvall

Spec == Init /\ [][Next]_vars

(***************************************************************************)
(* The codec on its own: a payload of any length up to MaxPayloadLen is    *)
(* framed by Message, a value up to MaxVal is formatted by pack, and the   *)
(* first four characters of the result are parsed back by unpack.          *)
(***************************************************************************)
CodecInit ==
    /\ SessionInit
    /\ stage = "input"
    /\ frame = <<>>
    /\ decoded = 0
    /\ \/ /\ mode = "message"
          /\ \E n \in 0..MaxPayloadLen : string = Payload(n)
          /\ val = 0
       \/ /\ mode = "pack"
          /\ string = <<>>
          /\ val \in 0..MaxVal

\* str(Message(string))
Message_encode ==
    /\ mode = "message"
    /\ stage = "input"
    /\ frame' = Message__str__(string)
    /\ stage' = "encoded"
    /\ UNCHANGED <<sessionVars, mode, string, val, decoded>>

\* pack(val)
pack_encode ==
    /\ mode = "pack"
    /\ stage = "input"
    /\ frame' = pack(val)
    /\ stage' = "encoded"
    /\ UNCHANGED <<sessionVars, mode, string, val, decoded>>

\* unpack(frame[:4])
unpack_prefix ==
    /\ stage = "encoded"
    /\ decoded' = unpack(SubSeq(frame, 1, 4))
    /\ stage' = "decoded"
    /\ UNCHANGED <<sessionVars, mode, string, val, frame>>

CodecNext == Message_encode \/ pack_encode \/ unpack_prefix

CodecSpec == CodecInit /\ [][CodecNext]_vars

(***************************************************************************)
(* Properties of the frame codec.                                          *)
(***************************************************************************)
\* The characters 0-9 and a-f.
IsLowerHex(ch) == (ch >= 48 /\ ch <= 57) \/ (ch >= 97 /\ ch <= 102)

\* The length that was encoded: of the payload, or the value given to pack.
EncodedLength == IF mode = "message" THEN Len(string) ELSE val

\* C10: for every payload p of fewer than 65536 bytes the frame is four
\* zero-padded lowercase hexadecimal characters followed by p, and its first
\* four characters decode to len(p); the same holds of pack and unpack on
\* every value below 65536.
C10_FrameRoundTrip ==
    (stage # "input" /\ EncodedLength < 65536) =>
        /\ Len(frame) = 4 + Len(string)
        /\ \A i \in 1..4 : IsLowerHex(frame[i])
        /\ SubSeq(frame, 5, Len(frame)) = string
        /\ stage = "decoded" => decoded = EncodedLength

\* A payload of 255 bytes has been framed as 00ff and decoded again.
C10_Witness ==
    /\ mode = "message"
    /\ stage = "decoded"
    /\ Len(string) = 255
    /\ SubSeq(frame, 1, 4) = <<48, 48, 102, 102>>

(***************************************************************************)
(* Properties of the session.                                              *)
(***************************************************************************)
\* The last operation has left, by return or by exception.
Exited == pc = "idle" /\ outcome \in {"returned", "raised"}

Returned == pc = "idle" /\ outcome = "returned"

\* io[i] is the status read in reply to the command msg.
IsReplyTo(i, msg) ==
    /\ i \in 2..Len(io)
    /\ io[i].dir = "r"
    /\ io[i].what = "status"
    /\ io[i - 1].dir = "w"
    /\ io[i - 1].what = "adb_send"
    /\ io[i - 1].tok = msg

\* The server answered FAIL to some command of the operation.
FailReplied == \E i \in 1..Len(io) : io[i].what = "status" /\ io[i].tok = FAIL

\* The Connections the operation wrote to or read from.
Used == {io[i].conn : i \in 1..Len(io)}

\* The session holds nothing and every Connection the operation used is closed.
NothingLeftOpen == _c = None /\ \A id \in Used : conns[id] = "closed"

HostCommands == {"host:version", "host:devices", "host:devices-l", "host:transport:"}

\* C1: after an operation other than execute in which the server answered
\* FAIL to a command, the session holds no Connection and the one it used is
\* closed.
C1_FailLeavesNoConnection ==
    (Exited /\ op \in Ops \ {"execute"} /\ FailReplied) => NothingLeftOpen

\* C2: whenever a public operation returns, the session holds no Connection
\* and the Connection it used is closed, but for the one a successful
\* execute handed to the caller.
C2_NoConnectionBetweenOperations ==
    Returned =>
        /\ _c = None
        /\ \A id \in Used : conns[id] = "closed" \/ id \in detached

\* C3: an execute that got OKAY for exec: returns the Connection it used,
\* still open and no longer held by the session; one that got another status
\* returns nothing and has closed the Connection.
C3_ExecuteDetach ==
    (Returned /\ op = "execute") =>
        \A i \in 1..Len(io) :
            IsReplyTo(i, "exec:") =>
                IF io[i].tok = OKAY
                THEN /\ rv.kind = "Connection"
                     /\ rv.conn = io[i].conn
                     /\ conns[rv.conn] = "open"
                     /\ _c = None
                ELSE /\ rv.kind = "None"
                     /\ conns[io[i].conn] = "closed"
                     /\ _c = None

\* execute has returned a Connection that is open.
C3_Witness ==
    /\ Returned
    /\ op = "execute"
    /\ rv.kind = "Connection"
    /\ conns[rv.conn] = "open"
    /\ IsReplyTo(Len(io), "exec:")

\* C4: when the server answers FAIL to the host:transport request of the
\* with_transport wrapper (the first request of the operation), the body's
\* own request is never written.
C4_TransportFailSkipsBody ==
    (op \in TransportOps /\ IsReplyTo(2, "host:transport:") /\ io[2].tok = FAIL) =>
        \A j \in 1..Len(io) : ~(io[j].dir = "w" /\ io[j].tok \in BodyRequests)

\* A with_transport operation has left after FAIL to the wrapper's request.
C4_Witness ==
    /\ Exited
    /\ op \in TransportOps
    /\ IsReplyTo(2, "host:transport:")
    /\ io[2].tok = FAIL

\* C5: FAIL in reply to a host command never makes the operation raise: it
\* returns None.
C5_FailNeverRaises ==
    \A i \in 1..Len(io) :
        (Exited /\ io[i].tok = FAIL /\ \E m \in HostCommands : IsReplyTo(i, m)) =>
            outcome = "returned" /\ rv.kind = "None"

\* C6: when the channel fails inside an operation wrapped by autoclose, the
\* Connection is closed and the session's field cleared before it exits.
C6_ClosedOnChannelFailure ==
    (Exited /\ op \in AutocloseOnlyOps \cup TransportOps /\ exc = "EOFError") =>
        NothingLeftOpen

\* C7: list, write and read write nothing more once the reply to sync: is
\* anything but OKAY.
C7_SyncRequiresOkay ==
    \A i \in 1..Len(io) :
        (op \in SyncOps /\ IsReplyTo(i, "sync:") /\ io[i].tok # OKAY) =>
            \A j \in (i + 1)..Len(io) : io[j].dir # "w"

\* The number of times name occurs in the list l.
Count(name, l) == Cardinality({i \in 1..Len(l) : l[i] = name})

\* C8: list returns the names of the DENT records the server sent that are
\* not '', '.' or '..', each as often as it was sent, in ascending
\* lexicographic order.
C8_ListFilteredSorted ==
    (op = "list" /\ rv.kind = "list") =>
        /\ \A i, j \in 1..Len(rv.names) :
              i < j => ~LexLess(rv.names[j], rv.names[i])
        /\ \A n \in Names :
              Count(n, rv.names) =
                  IF n \in {<<>>, <<46>>, <<46, 46>>} THEN 0 ELSE Count(n, dents)

\* The server sent "b", "..", "a" and list returned ["a", "b"].
C8_Witness ==
    /\ Returned
    /\ op = "list"
    /\ dents = <<<<98>>, <<46, 46>>, <<97>>>>
    /\ rv.kind = "list"
    /\ rv.names = <<<<97>>, <<98>>>>

\* C9: the first tag that is not DENT is the last thing list reads; list
\* then returns its list without raising, the empty list when no DENT came
\* before.
C9_ListStopsAtFirstNonDent ==
    op = "list" =>
        \A i \in 1..Len(io) :
            (io[i].what = "tag" /\ io[i].tok # "DENT") =>
                /\ i = Len(io)
                /\ pc \in {"with_transport_close", "autoclose_close", "idle"}
                /\ outcome # "raised"
                /\ rv.kind = "list"
                /\ dents = <<>> => rv.names = <<>>

\* list has returned the empty list after FAIL as the very first tag.
C9_Witness ==
    /\ Returned
    /\ op = "list"
    /\ dents = <<>>
    /\ rv.kind = "list"
    /\ rv.names = <<>>
    /\ io[Len(io)].what = "tag"
    /\ io[Len(io)].tok = FAIL

(***************************************************************************)
(* Properties of version, devices and kill.                                *)
(***************************************************************************)
\* The server answered OKAY to host:version and sent 0004, then 0001.
VersionScenario ==
    /\ op = "version"
    /\ IsReplyTo(2, "host:version")
    /\ io[2].tok = OKAY
    /\ served = <<48, 48, 48, 52, 48, 48, 48, 49>>

\* C11 as stated: after OKAY, 0004, 0001 version returns a tuple whose first
\* component is 1.
C11_VersionFirstIsOne ==
    (Exited /\ VersionScenario) =>
        outcome = "returned" /\ rv.kind = "tuple" /\ rv.nums[1] = 1

\* C11, amended: version sends host:version and, after OKAY, 0004, 0001,
\* returns the two fields in the order they came: (4, 1).
C11_VersionTupleInOrder ==
    /\ (op = "version" /\ Len(io) >= 1) =>
           io[1].dir = "w" /\ io[1].what = "adb_send" /\ io[1].tok = "host:version"
    /\ (Exited /\ VersionScenario) =>
           outcome = "returned" /\ rv.kind = "tuple" /\ rv.nums = <<4, 1>>

\* version has returned after OKAY, 0004, 0001.
C11_Witness == Returned /\ VersionScenario /\ rv.kind = "tuple"

\* The number of bytes one read took from the stream.
BytesOf(e) == IF e.what \in {"status", "tag", "u32"} THEN 4 ELSE Len(e.data)

RECURSIVE BytesRead(_)
\* The number of bytes the reads of a log took from the stream.
BytesRead(log) ==
    IF Len(log) = 0 THEN 0
    ELSE (IF log[1].dir = "r" THEN BytesOf(log[1]) ELSE 0) + BytesRead(Tail(log))

\* The command devices(long) sends.
DevicesMsg == IF args.long THEN "host:devices-l" ELSE "host:devices"

\* The length the server announced after the status.
Announced == unpack(SubSeq(served, 1, 4))

\* C12: devices(long) sends host:devices, or host:devices-l when long is
\* true; after OKAY, a length N and at least N bytes it returns exactly the N
\* bytes that follow the length, having read 4 + 4 + N bytes from the stream,
\* and the Connection is closed.
C12_DevicesLengthPrefixed ==
    /\ (op = "devices" /\ Len(io) >= 1) =>
           io[1].dir = "w" /\ io[1].what = "adb_send" /\ io[1].tok = DevicesMsg
    /\ (Exited /\ op = "devices" /\ IsReplyTo(2, DevicesMsg) /\ io[2].tok = OKAY
           /\ Len(served) >= 4 /\ Announced >= 0 /\ Len(served) >= 4 + Announced) =>
           /\ outcome = "returned"
           /\ rv.kind = "bytes"
           /\ rv.data = SubSeq(served, 5, 4 + Announced)
           /\ BytesRead(io) = 4 + 4 + Announced
           /\ _c = None
           /\ conns[io[1].conn] = "closed"

\* devices(long=True) has returned "dev\n" of the 0004, "dev\nX" the server
\* sent.
C12_Witness ==
    /\ Returned
    /\ op = "devices"
    /\ args.long
    /\ served = <<48, 48, 48, 52, 100, 101, 118, 10, 88>>
    /\ rv.data = <<100, 101, 118, 10>>

\* No status was read: the stream ended in the send or in the read.
NoStatusRead == \A i \in 1..Len(io) : io[i].what # "status"

\* C13: a kill whose send, or whose read of the status, hit end of stream
\* returns normally, and the session is left with no open Connection.
C13_KillToleratesEof ==
    (Exited /\ op = "kill" /\ NoStatusRead) =>
        /\ outcome = "returned"
        /\ rv.kind = "None"
        /\ _c = None
        /\ \A id \in 1..Len(conns) : conns[id] = "closed" \/ id \in detached

\* kill has returned although the read of the status hit end of stream.
C13_Witness ==
    /\ Returned
    /\ op = "kill"
    /\ Len(io) = 1
    /\ io[1].dir = "w"
    /\ io[1].tok = "host:kill"

(***************************************************************************)
(* Properties of the Connections of a session.                             *)
(***************************************************************************)
\* C14 as stated: a Connection is opened to the ambient host and port of the
\* moment it is opened.
C14_ConnectsToAmbient ==
    [][Len(targets') > Len(targets) => targets'[Len(targets')] = context]_vars

\* C14, amended: every Connection is opened to the host and port that were
\* ambient when the Host was constructed, whatever they are by then.
C14_ConnectsToConstructionTime ==
    /\ host = AtConstruction
    /\ \A id \in 1..Len(targets) : targets[id] = AtConstruction

\* The running operation has opened the first Connection while the ambient
\* configuration names another server than at construction.
C14_Witness ==
    /\ outcome = "running"
    /\ context # AtConstruction
    /\ Len(conns) = 1
    /\ io # <<>>
    /\ io[1].conn = 1

\* io[j] is the write of a body's own first request.
IsBodyRequest(j) ==
    /\ io[j].dir = "w"
    /\ io[j].what = "adb_send"
    /\ io[j].tok \in BodyRequests

\* io[i] is the write of a host:transport request.
IsTransportRequest(i) ==
    /\ io[i].dir = "w"
    /\ io[i].what = "adb_send"
    /\ io[i].tok = "host:transport:"

\* C15: the body's own request is written after a host:transport request
\* that was answered OKAY, on the same Connection, and the Connection is
\* closed when the operation returns, unless execute handed it over.
C15_BodyAfterOkayTransport ==
    op \in TransportOps =>
        /\ \A j \in 1..Len(io) :
              IsBodyRequest(j) =>
                  \E i \in 2..(j - 1) :
                      /\ IsReplyTo(i, "host:transport:")
                      /\ io[i].tok = OKAY
                      /\ \A k \in (i - 1)..j : io[k].conn = io[j].conn
        /\ Returned =>
              \A id \in Used : conns[id] = "closed" \/ (op = "execute" /\ id \in detached)

\* C16: exactly one host:transport request is written before the body's own
\* request, in execute as in every other with_transport operation.
C16_OneTransportPerCall ==
    op \in TransportOps =>
        \A j \in 1..Len(io) :
            IsBodyRequest(j) =>
                Cardinality({i \in 1..(j - 1) : IsTransportRequest(i)}) = 1

\* C17: the length field after the SEND tag is the length of the string
\* "path,mode" that follows it.
C17_SendLengthCoversPathAndMode ==
    \A j \in 1..Len(io) :
        (op = "write" /\ io[j].dir = "w" /\ io[j].tok = "SEND") =>
            io[j].len = Len(io[j].data)

\* The Connection id is in exactly one of the three states: held by the
\* session (and open), closed, or handed to the caller of execute.
OneOfThree(id) ==
    /\ (id = _c /\ conns[id] = "open") \/ conns[id] = "closed" \/ id \in detached
    /\ ~(id = _c /\ conns[id] = "closed")
    /\ ~(id = _c /\ id \in detached)
    /\ ~(conns[id] = "closed" /\ id \in detached)

\* C18: a Host is constructed without a Connection; it holds none or one of
\* those it opened; it opens one only while it holds none; and every
\* Connection it ever opened is held, or closed, or was handed over by
\* execute.
C18_ZeroOrOneConnection ==
    /\ [](/\ (pc = "idle" /\ outcome = "none" /\ Len(conns) = 0) => _c = None
          /\ _c \in 0..Len(conns)
          /\ \A id \in 1..Len(conns) : OneOfThree(id))
    /\ [][Len(conns') # Len(conns) =>
              /\ _c = None
              /\ Len(conns') = Len(conns) + 1
              /\ _c' = Len(conns')]_vars

\* A second Connection is held while the first is closed and none was
\* dropped.
C18_Witness ==
    /\ Len(conns) = 2
    /\ conns[1] = "closed"
    /\ _c = 2
    /\ conns[2] = "open"

\* C19: close() is called at most once on a Connection, and nothing is
\* written to or read from a Connection that has been closed.
C19_NoUseAfterClose ==
    /\ [](\A id \in 1..Len(closes) : closes[id] <= 1)
    /\ [][\A i \in (Len(io) + 1)..Len(io') :
              io'[i].conn > Len(conns) \/ conns[io'[i].conn] = "open"]_vars

\* A with_transport operation has returned: both wrappers have run, and the
\* Connection it used was closed once.
C19_Witness ==
    /\ Returned
    /\ op \in FireOps
    /\ Used # {}
    /\ \A id \in Used : closes[id] = 1 /\ conns[id] = "closed"

\* C20: a Connection handed over by execute stays as it was: open, never
\* closed by the session, not held by it, and used by no later operation.
C20_DetachedLeftAlone ==
    \A id \in detached :
        /\ conns[id] = "open"
        /\ closes[id] = 0
        /\ _c # id
        /\ (\E i \in 1..Len(io) : io[i].conn = id) =>
              /\ op = "execute"
              /\ rv.kind = "Connection"
              /\ rv.conn = id
              /\ IsReplyTo(Len(io), "exec:")

\* After execute handed over Connection 1, another operation has run on
\* Connection 2 and returned.
C20_Witness ==
    /\ Returned
    /\ op # "execute"
    /\ detached = {1}
    /\ conns[1] = "open"
    /\ Used = {2}

====
